---- MODULE Spec2Model ----
(***************************************************************************)
(* Model of alertengine: the Reloader (reconciler), the per-source         *)
(* Manager with its RuleEvaluator tick loop, the rule state machine, the   *)
(* notifier and the rule archive (rule.Storage).                           *)
(*                                                                         *)
(* Time is counted in evaluation intervals; the zero time.Time is 0.       *)
(* Every goroutine is a process with its own program counter:              *)
(*   rpc  - main goroutine: Reloader.Run, then Reloader.Loop / Update      *)
(*   spc  - signal goroutine: Reloader.Stop                                *)
(*   epc  - one tick loop (RuleEvaluator.Run) per Manager instance         *)
(***************************************************************************)
EXTENDS Integers, Sequences, FiniteSets, TLC

\* ---- bounds of the model ----
MaxInst == 2        \* Manager instances ever constructed
MaxTime == 4        \* last clock reading of a tick
MaxTicks == 2       \* ticks of all evaluators together, whole program
MaxReloads == 2     \* runs of Reloader.Update in one behaviour
MaxStops == 2       \* Reloader.Stop calls in one behaviour
MaxNotifyRetries == 3   \* largest config.NotifyRetries
MaxNotifyCalls == 3     \* sendNotification calls in one behaviour
MaxFsTime == 3      \* last reading of the storage's clock
MaxFiles == 3       \* files the base directory holds at one time
MaxLimit == 2       \* largest limit given to ListVersions
MaxRetention == 1   \* largest Storage.retentionDays
MaxLoops == 2       \* tick loops one Manager is given by Reloader.Run calls

\* ---- inputs ----
PromIds == 1..2
RuleIds == {1, 2, 3}
BadURL == "10.0.0.1:9090"   \* url.Parse fails: api.NewClient returns an error
URLs == {"", "http://a", "http://b", BadURL}
ForStrings == {"", "2s"}
ZeroTime == 0
PresentValue == 5

StateInactive == "Inactive"
StatePending == "Pending"
StateFiring == "Firing"

None == [kind |-> "none"]

VARIABLES
    clock,          \* time.Now(), in evaluation intervals
    panicked,       \* an unrecovered runtime panic ended the process
    running,        \* Reloader.running
    rootCancelled,  \* Reloader.ctx is cancelled
    managers,       \* Reloader.managers: prom id -> instance (0: no entry)
    rpc,            \* position of the main goroutine
    fetched,        \* the prom of each group of the last successful fetch
    reloadSuccess,  \* metrics.ReloadSuccess
    reloadErrors,   \* metrics.ReloadErrors
    updateRuns,     \* Update() calls completed by Loop
    lastErr,        \* whether the last completed Update() returned an error
    lastFetch,      \* what the gateway did in that Update's fetch
    spc,            \* position of the signal goroutine in Reloader.Stop
    stopCalls,      \* Reloader.Stop calls started
    nInst,          \* Manager instances constructed so far
    inst,           \* Manager.prom of each instance
    cancelled,      \* Manager.cancel() was called
    rules,          \* RuleEvaluator.rules of each instance
    epc,            \* position of each instance's tick loop
    loops,          \* tick loops (go m.evaluator.Run) started and not returned
    idx,            \* evaluate: loop index i (1-based)
    tickLen,        \* evaluate: len(e.rules) taken by the range clause
    now,            \* evaluate: now of the current / last pass
    held,           \* evaluate: the element rule points to
    stale,          \* evaluate: rule points into a slice UpdateRules replaced
    qres,           \* evaluate: result of queryFunc
    rulesLoaded,    \* metrics.RulesLoaded per prom id
    emitted,        \* the notifyFunc call made by the last step, if any
    notifyRetries,  \* config.NotifyRetries
    npc,            \* sendNotification: position of the call in progress
    nTry,           \* sendNotification: loop variable i
    marshalled,     \* sendNotification: json.Marshal of the last call succeeded
    attempts,       \* sendNotification: client.Do calls made by the last call
    callStart,      \* the two notify counters when the last call started
    notifyCalls,    \* sendNotification calls started
    notificationsSent,  \* metrics.NotificationsSent
    notifyErrors,   \* metrics.NotifyErrors
    lastRules,      \* the list given to the last Manager.Update that returned nil
    updateErr,      \* the last Manager.Update returned an error to its caller
    series,         \* label sets of the series the backend answers with
    enableNotify,   \* config.EnableNotify
    enableHistory,  \* Storage.enableHistory
    retentionDays,  \* Storage.retentionDays
    fs,             \* the entries under Storage.baseDir
    fsClock,        \* time.Now() as the storage sees it, in half seconds
    ret,            \* the last Storage call and what it returned
    open,           \* per instance: rule ids notified "firing" and not "resolved" since
    noted           \* per instance: rule ids notified in the current pass

vars == <<clock, panicked, running, rootCancelled, managers, rpc,
          fetched, reloadSuccess, reloadErrors, updateRuns, lastErr, lastFetch,
          spc, stopCalls, nInst, inst, cancelled, rules, epc, loops, idx, tickLen,
          now, held, stale,
          qres, rulesLoaded, emitted, notifyRetries, npc, nTry, marshalled,
          attempts, callStart, notifyCalls, notificationsSent, notifyErrors,
          lastRules, updateErr, series, enableNotify, enableHistory,
          retentionDays, fs, fsClock, ret, open, noted>>

reloaderVars == <<running, rootCancelled, managers, rpc, fetched, reloadSuccess,
                  reloadErrors, updateRuns, lastErr, lastFetch, spc, stopCalls>>
instVars == <<nInst, inst, cancelled, rules, rulesLoaded, loops>>
tickVars == <<epc, idx, tickLen, now, held, stale, qres>>
notifyVars == <<notifyRetries, npc, nTry, marshalled, attempts, callStart,
                notifyCalls, notificationsSent, notifyErrors>>
callVars == <<lastRules, updateErr>>
storageVars == <<enableHistory, retentionDays, fs, fsClock, ret>>
historyVars == <<open, noted>>
outerVars == <<series, enableNotify, storageVars, historyVars>>
programVarsOfStorage == <<clock, panicked, reloaderVars, instVars, tickVars, emitted,
                          callVars, series, enableNotify, historyVars>>

Insts == 1..MaxInst

\* ---- pure functions ----

\* time.ParseDuration as Manager.Update uses it: the error is dropped, so an
\* empty or malformed string gives 0.
ParseDuration(s) ==
    CASE s = "1s" -> 1
      [] s = "2s" -> 2
      [] OTHER -> 0

\* api.NewClient: fails iff url.Parse(Address) fails.
NewClientOk(url) == url # BadURL

\* Labels: a map from label names to values.
NoLabels == [n \in {} |-> ""]

\* The labels the gateway has configured for each rule.
ConfiguredLabels(id) ==
    CASE id = 1 -> [n \in {"severity"} |-> "warn"]
      [] id = 2 -> [n \in {"instance"} |-> "cfg"]
      [] OTHER -> NoLabels

\* rule.Rule as the gateway returns it (fields the evaluator state depends on).
Rule(id, promId, for) ==
    [id |-> id, promId |-> promId, for |-> for, labels |-> ConfiguredLabels(id)]

\* The source each rule id belongs to in the gateway's data.
PromOf(id) == IF id = 3 THEN 2 ELSE 1

GatewayRules == {Rule(id, PromOf(id), f) : id \in RuleIds, f \in ForStrings}

\* The element Manager.Update builds for one rule.
NewEvalRule(r) ==
    [id |-> r.id, for |-> ParseDuration(r.for), labels |-> r.labels,
     state |-> StateInactive,
     activeAt |-> ZeroTime, firedAt |-> ZeroTime, lastValue |-> 0]

NoProm == [id |-> 0, url |-> ""]

NoRule == [id |-> 0, for |-> 0, labels |-> NoLabels, state |-> StateInactive,
           activeAt |-> ZeroTime, firedAt |-> ZeroTime, lastValue |-> 0]

\* ---- the rule state machine (RuleEvaluator.updateRuleState) ----
\* Each case gives the element as the step leaves it, the notifyFunc call it
\* makes ("none" when it makes none) and the copy of the rule passed to it.

StepResult(r, kind, arg) == [rule |-> r, notify |-> kind, sent |-> arg]

\* Variant: an inactive rule with a value becomes pending without ActiveAt.
InactiveStepNoStamp(r, hasValue, t) ==
    IF hasValue
    THEN StepResult([r EXCEPT !.state = StatePending], "none", NoRule)
    ELSE StepResult(r, "none", NoRule)

\* Variant: an inactive rule without a value is notified as resolved.
InactiveStepResolves(r, hasValue, t) ==
    IF hasValue
    THEN StepResult([r EXCEPT !.state = StatePending, !.activeAt = t], "none", NoRule)
    ELSE StepResult(r, "resolved", r)

\* case StateInactive
InactiveStep(r, hasValue, t) ==
    IF hasValue
    THEN StepResult([r EXCEPT !.state = StatePending, !.activeAt = t], "none", NoRule)
    ELSE StepResult(r, "none", NoRule)

\* Variant: a pending rule fires without a notifyFunc call.
PendingStepSilent(r, hasValue, t) ==
    IF ~hasValue
    THEN StepResult([r EXCEPT !.state = StateInactive, !.activeAt = ZeroTime],
                    "none", NoRule)
    ELSE IF t - r.activeAt >= r.for
    THEN StepResult([r EXCEPT !.state = StateFiring, !.firedAt = t], "none", NoRule)
    ELSE StepResult(r, "none", NoRule)

\* Variant: the comparison with For is strict.
PendingStepStrict(r, hasValue, t) ==
    IF ~hasValue
    THEN StepResult([r EXCEPT !.state = StateInactive, !.activeAt = ZeroTime],
                    "none", NoRule)
    ELSE IF t - r.activeAt > r.for
    THEN LET f == [r EXCEPT !.state = StateFiring, !.firedAt = t]
         IN  StepResult(f, "firing", f)
    ELSE StepResult(r, "none", NoRule)

\* Variant: a pending rule with a value fires whatever For is.
PendingStepNoWait(r, hasValue, t) ==
    IF ~hasValue
    THEN StepResult([r EXCEPT !.state = StateInactive, !.activeAt = ZeroTime],
                    "none", NoRule)
    ELSE LET f == [r EXCEPT !.state = StateFiring, !.firedAt = t]
         IN  StepResult(f, "firing", f)

\* case StatePending
PendingStep(r, hasValue, t) ==
    IF ~hasValue
    THEN StepResult([r EXCEPT !.state = StateInactive, !.activeAt = ZeroTime],
                    "none", NoRule)
    ELSE IF t - r.activeAt >= r.for
    THEN LET f == [r EXCEPT !.state = StateFiring, !.firedAt = t]
         IN  StepResult(f, "firing", f)
    ELSE StepResult(r, "none", NoRule)

\* Variant: a firing rule that still has a value notifies nothing (the
\* behaviour of the first updateRuleState in the file).
FiringStepNoRepeat(r, hasValue, t) ==
    IF ~hasValue
    THEN StepResult([r EXCEPT !.state = StateInactive, !.activeAt = ZeroTime,
                              !.firedAt = ZeroTime],
                    "resolved", r)
    ELSE StepResult(r, "none", NoRule)

\* Variant: the times are cleared before the resolved notification is built.
FiringStepClearsFirst(r, hasValue, t) ==
    IF ~hasValue
    THEN LET c == [r EXCEPT !.state = StateInactive, !.activeAt = ZeroTime,
                            !.firedAt = ZeroTime]
         IN  StepResult(c, "resolved", c)
    ELSE StepResult(r, "firing", r)

\* Variant: a resolved rule keeps FiredAt.
FiringStepKeepsFiredAt(r, hasValue, t) ==
    IF ~hasValue
    THEN StepResult([r EXCEPT !.state = StateInactive, !.activeAt = ZeroTime],
                    "resolved", r)
    ELSE StepResult(r, "firing", r)

\* case StateFiring
FiringStep(r, hasValue, t) ==
    IF ~hasValue
    THEN StepResult([r EXCEPT !.state = StateInactive, !.activeAt = ZeroTime,
                              !.firedAt = ZeroTime],
                    "resolved", r)
    ELSE StepResult(r, "firing", r)

updateRuleState(rule, hasValue, value, t) ==
    LET r == [rule EXCEPT !.lastValue = value]
    IN  CASE r.state = StateInactive -> InactiveStep(r, hasValue, t)
          [] r.state = StatePending -> PendingStep(r, hasValue, t)
          [] r.state = StateFiring -> FiringStep(r, hasValue, t)

\* ---- Manager ----

\* Variant: Manager.ctx has no parent.
CtxDoneOwn(i) == cancelled[i]

\* Manager.ctx is a child of Reloader.ctx.
CtxDone(i) == cancelled[i] \/ rootCancelled

\* queryPrometheus: a query on a cancelled context fails; otherwise the
\* backend decides. Results: error, empty vector (no value, nil labels), a
\* scalar (a value, nil labels), or a vector (the value and the labels of
\* its first sample). vector: the labels returned are not nil.
QueryErr == [err |-> TRUE, has |-> FALSE, value |-> 0, vector |-> FALSE,
             labels |-> NoLabels]
QueryEmpty == [err |-> FALSE, has |-> FALSE, value |-> 0, vector |-> FALSE,
               labels |-> NoLabels]
QueryPresent == [err |-> FALSE, has |-> TRUE, value |-> PresentValue,
                 vector |-> FALSE, labels |-> NoLabels]
QueryVector(l) == [err |-> FALSE, has |-> TRUE, value |-> PresentValue,
                   vector |-> TRUE, labels |-> l]
\* Variant: the query does not look at the context.
QueryResultsIgnoringCtx(i) == {QueryErr, QueryEmpty, QueryPresent}
QueryResults(i) ==
    IF CtxDone(i) THEN {QueryErr}
    ELSE {QueryErr, QueryEmpty, QueryPresent} \cup {QueryVector(l) : l \in series}

\* evaluate, the merge: when the query has a value and its labels are not
\* nil, rule.Labels becomes the element's labels overlaid with the query's.
MergeLabels(a, b) ==
    [n \in DOMAIN a \cup DOMAIN b |-> IF n \in DOMAIN b THEN b[n] ELSE a[n]]
Merged(rule, q) ==
    IF q.has /\ q.vector
    THEN [rule EXCEPT !.labels = MergeLabels(rule.labels, q.labels)]
    ELSE rule

\* Variant: the slice is filled from the end of the list.
EvalRulesReversed(rs) == [k \in 1..Len(rs) |-> NewEvalRule(rs[Len(rs) + 1 - k])]

\* The slice Manager.Update builds: one fresh element per rule, in order.
EvalRules(rs) == [k \in 1..Len(rs) |-> NewEvalRule(rs[k])]

\* The part of the state Reloader.Update and Manager.Update work on.
World ==
    [managers |-> managers, nInst |-> nInst, inst |-> inst,
     cancelled |-> cancelled, epc |-> epc, loops |-> loops, rules |-> rules,
     stale |-> stale, rulesLoaded |-> rulesLoaded]

\* Variant: the evaluator is given the new slice before the save is tried.
ManagerUpdateInstallsFirst(w, i, rs, ioOk) ==
    [w EXCEPT !.rules[i] = EvalRules(rs),
              !.stale[i] = (w.epc[i] = "update"),
              !.rulesLoaded[w.inst[i].id] = IF ioOk THEN Len(rs) ELSE @]

\* Manager.Update(rules) on instance i; ioOk: Content() and SaveRule succeed.
\* Every element of the new slice is built with State: StateInactive and
\* zero times. UpdateRules replaces e.rules; a tick that holds &e.rules[i]
\* keeps pointing into the slice that was replaced.
ManagerUpdate(w, i, rs, ioOk) ==
    IF ~ioOk THEN w
    ELSE [w EXCEPT !.rules[i] = EvalRules(rs),
                   !.stale[i] = (w.epc[i] = "update"),
                   !.rulesLoaded[w.inst[i].id] = Len(rs)]

\* Manager.Stop
ManagerStop(i) ==
    /\ ~panicked
    /\ i <= nInst
    /\ cancelled' = [cancelled EXCEPT ![i] = TRUE]
    /\ emitted' = None
    /\ UNCHANGED <<clock, panicked, reloaderVars, nInst, inst, rules,
                   rulesLoaded, loops, tickVars>>
    /\ UNCHANGED notifyVars
    /\ UNCHANGED <<callVars, outerVars>>

\* ---- RuleEvaluator.Run / evaluate ----

\* select in Run takes ticker.C (it may, even when ctx.Done() is ready too:
\* select chooses among the ready cases at random), evaluate starts:
\* now := time.Now(); the range clause reads e.rules once.
TickStart(i) ==
    /\ ~panicked
    /\ epc[i] = "wait"
    /\ clock < MaxTime
    /\ clock' = clock + 1
    /\ now' = [now EXCEPT ![i] = IF Len(rules[i]) = 0 THEN 0 ELSE clock + 1]
    /\ tickLen' = [tickLen EXCEPT ![i] = Len(rules[i])]
    /\ idx' = [idx EXCEPT ![i] = IF Len(rules[i]) = 0 THEN 0 ELSE 1]
    /\ epc' = [epc EXCEPT ![i] = IF Len(rules[i]) = 0 THEN "wait" ELSE "query"]
    /\ emitted' = None
    /\ noted' = [noted EXCEPT ![i] = {}]
    /\ UNCHANGED <<panicked, reloaderVars, instVars, held, stale, qres>>
    /\ UNCHANGED notifyVars
    /\ UNCHANGED <<callVars, series, enableNotify, storageVars, open>>

\* select in Run takes ctx.Done(): the tick loop returns.
LoopExit(i) ==
    /\ ~panicked
    /\ epc[i] = "wait"
    /\ CtxDone(i)
    /\ loops' = [loops EXCEPT ![i] = @ - 1]
    /\ epc' = IF loops[i] > 1 THEN epc ELSE [epc EXCEPT ![i] = "exited"]
    /\ rules' = IF loops[i] = 1 /\ \A p \in PromIds : managers[p] # i
                THEN [rules EXCEPT ![i] = <<>>] ELSE rules
    /\ inst' = IF loops[i] = 1 /\ \A p \in PromIds : managers[p] # i
               THEN [inst EXCEPT ![i] = NoProm] ELSE inst
    /\ emitted' = None
    /\ UNCHANGED <<clock, panicked, reloaderVars, nInst, cancelled,
                   rulesLoaded, idx, tickLen, now, held, stale, qres>>
    /\ UNCHANGED notifyVars
    /\ UNCHANGED <<callVars, outerVars>>

\* Variant: the pass over the rules ends at the first iteration that ends.
NextRuleReturns(i) ==
    /\ idx' = [idx EXCEPT ![i] = 0]
    /\ epc' = [epc EXCEPT ![i] = "wait"]
    /\ tickLen' = [tickLen EXCEPT ![i] = 0]
    /\ now' = [now EXCEPT ![i] = 0]
    /\ held' = [held EXCEPT ![i] = NoRule]
    /\ stale' = [stale EXCEPT ![i] = FALSE]
    /\ qres' = [qres EXCEPT ![i] = QueryErr]

\* End of one iteration of evaluate's loop.
NextRule(i) ==
    /\ idx' = [idx EXCEPT ![i] = IF idx[i] < tickLen[i] THEN idx[i] + 1 ELSE 0]
    /\ epc' = [epc EXCEPT ![i] = IF idx[i] < tickLen[i] THEN "query" ELSE "wait"]
    /\ tickLen' = [tickLen EXCEPT ![i] = IF idx[i] < tickLen[i] THEN tickLen[i] ELSE 0]
    /\ now' = [now EXCEPT ![i] = IF idx[i] < tickLen[i] THEN now[i] ELSE 0]
    /\ held' = [held EXCEPT ![i] = NoRule]
    /\ stale' = [stale EXCEPT ![i] = FALSE]
    /\ qres' = [qres EXCEPT ![i] = QueryErr]

\* rule := &e.rules[i] re-reads e.rules: past the end of a shorter slice that
\* UpdateRules installed meanwhile, the index is out of range and the process
\* panics. Otherwise queryFunc runs; on error the rule is skipped.
EvalQuery(i) ==
    /\ ~panicked
    /\ epc[i] = "query"
    /\ emitted' = None
    /\ IF idx[i] > Len(rules[i])
       THEN /\ panicked' = TRUE
            /\ UNCHANGED <<clock, reloaderVars, instVars, tickVars>>
       ELSE \E q \in QueryResults(i) :
              /\ IF q.err
                 THEN NextRule(i)
                 ELSE /\ held' = [held EXCEPT ![i] = rules[i][idx[i]]]
                      /\ stale' = [stale EXCEPT ![i] = FALSE]
                      /\ qres' = [qres EXCEPT ![i] = q]
                      /\ epc' = [epc EXCEPT ![i] = "update"]
                      /\ UNCHANGED <<idx, tickLen, now>>
              /\ UNCHANGED <<clock, panicked, reloaderVars, instVars>>
    /\ UNCHANGED notifyVars
    /\ UNCHANGED <<callVars, outerVars>>

\* The record of the notifyFunc calls an evaluator has made: the rule ids
\* with a "firing" call since their last "resolved" call.
Opened(ids, kind, id) ==
    CASE kind = "firing" -> ids \cup {id}
      [] kind = "resolved" -> ids \ {id}
      [] OTHER -> ids

\* No notifyFunc call was made yet.
NoHistory ==
    /\ open = [i \in Insts |-> {}]
    /\ noted = [i \in Insts |-> {}]

\* The label merge and updateRuleState on the element rule points to, with
\* its notifyFunc call. A write through a pointer into a replaced slice does
\* not reach e.rules.
EvalUpdate(i) ==
    /\ ~panicked
    /\ epc[i] = "update"
    /\ LET res == updateRuleState(Merged(held[i], qres[i]), qres[i].has,
                                  qres[i].value, now[i])
       IN  /\ rules' = IF stale[i] THEN rules
                       ELSE [rules EXCEPT ![i][idx[i]] = res.rule]
           /\ emitted' = IF res.notify = "none" THEN None
                         ELSE [kind |-> res.notify, inst |-> i, rule |-> res.sent]
           /\ open' = [open EXCEPT ![i] = Opened(@, res.notify, res.sent.id)]
           /\ noted' = [noted EXCEPT ![i] = IF res.notify = "none" THEN @
                                            ELSE @ \cup {res.sent.id}]
    /\ NextRule(i)
    /\ UNCHANGED <<clock, panicked, reloaderVars, nInst, inst, cancelled,
                   rulesLoaded, loops>>
    /\ UNCHANGED notifyVars
    /\ UNCHANGED <<callVars, series, enableNotify, storageVars>>

\* ---- Reloader ----

\* Rule lists a caller may pass to Manager.Update of the manager of source p:
\* up to two of the source's rules, distinct ids, either order, any "for".
RuleListsOf(p) ==
    LET Own == {r \in GatewayRules : r.promId = p}
    IN  {<<>>} \cup {<<r>> : r \in Own}
               \cup {l \in {<<r, q>> : r \in Own, q \in Own} : l[1].id # l[2].id}

\* Rule lists the gateway returns in the whole-program specification: none,
\* one rule of either source, or one rule of each.
GatewayRuleLists ==
    {<<>>, <<Rule(1, 1, "")>>, <<Rule(3, 2, "2s")>>,
     <<Rule(1, 1, ""), Rule(3, 2, "2s")>>}

\* Prom lists the gateway returns: each source absent or present; source 1
\* with any URL, the others with a good one.
URLsOf(p) == IF p = 1 THEN URLs ELSE {"http://a"}
PromLists ==
    LET Pick == {f \in [PromIds -> URLs \cup {"absent"}] :
                    \A p \in PromIds : f[p] \in URLsOf(p) \cup {"absent"}}
        All(f) == [k \in 1..Cardinality(PromIds) |-> [id |-> k, url |-> f[k]]]
    IN  {SelectSeq(All(f), LAMBDA pr : pr.url # "absent") : f \in Pick}

\* The gateway's answer to one GET: transport outcome, body code, body data.
Resp(status, code, data) == [status |-> status, code |-> code, data |-> data]
RulesResps ==
    {Resp("ok", 0, d) : d \in GatewayRuleLists}
        \cup {Resp("transport", 0, <<>>), Resp("decode", 0, <<>>), Resp("ok", 1, <<>>)}
PromsResps ==
    {Resp("ok", 0, d) : d \in PromLists}
        \cup {Resp("transport", 0, <<>>), Resp("decode", 0, <<>>), Resp("ok", 1, <<>>)}

\* Variant: Code is not looked at.
RespFailedIgnoresCode(resp) == resp.status # "ok"

\* fetchRules / fetchProms return an error: client.Do failed, the body did
\* not decode, or Code != 0.
RespFailed(resp) == resp.status # "ok" \/ resp.code # 0

\* Rules.PromRules: the rules grouped by PromID, each group keeping the
\* list's order. The code emits the groups in the order of a map iteration;
\* the groups have distinct ids and Update handles each on its own manager,
\* so the order changes nothing but which new Manager is allocated first:
\* the groups are taken by ascending id.
GroupIds(rs) == {rs[k].promId : k \in DOMAIN rs}
RECURSIVE Ascending(_)
Ascending(S) ==
    IF S = {} THEN <<>>
    ELSE LET m == CHOOSE x \in S : \A y \in S : x <= y
         IN  <<m>> \o Ascending(S \ {m})
PromRulesOf(rs) ==
    LET order == Ascending(GroupIds(rs))
    IN  [k \in DOMAIN order |->
            [prom |-> [id |-> order[k], url |-> ""],
             rules |-> SelectSeq(rs, LAMBDA r : r.promId = order[k])]]

\* fetchPromRules, the join: each group takes the URL of the first Prom with
\* its id, and keeps "" when there is none.
LookupURL(proms, id) ==
    IF \E k \in DOMAIN proms : proms[k].id = id
    THEN proms[CHOOSE k \in DOMAIN proms :
                 /\ proms[k].id = id
                 /\ \A j \in DOMAIN proms : proms[j].id = id => k <= j].url
    ELSE ""
JoinProms(groups, proms) ==
    [k \in DOMAIN groups |->
        [groups[k] EXCEPT !.prom.url = LookupURL(proms, groups[k].prom.id)]]

\* fetchPromRules: the two GETs in sequence, then the join.
\* gateway: how the gateway answered (the first GET that went wrong).
Answer(resp) ==
    IF resp.status # "ok" THEN resp.status ELSE IF resp.code # 0 THEN "api" ELSE "ok"
fetchPromRules(rr, pr) ==
    IF RespFailed(rr) \/ RespFailed(pr)
    THEN [err |-> TRUE, groups |-> <<>>,
          gateway |-> IF Answer(rr) # "ok" THEN Answer(rr) ELSE Answer(pr)]
    ELSE [err |-> FALSE, groups |-> JoinProms(PromRulesOf(rr.data), pr.data),
          gateway |-> IF Answer(rr) # "ok" THEN Answer(rr) ELSE Answer(pr)]

\* Everything fetchPromRules can return for the gateway's answers.
FetchOutcomes == {fetchPromRules(rr, pr) : rr \in RulesResps, pr \in PromsResps}

\* Variant: the sweep deletes a manager only when a group names its id.
ShouldDeleteWhenListed(m, groups) ==
    \E k \in DOMAIN groups :
        /\ m.id = groups[k].prom.id
        /\ m.url # groups[k].prom.url \/ groups[k].prom.url = ""

\* Variant: the sweep compares the URL and forgets the id.
ShouldDeleteByURL(m, groups) ==
    ~\E k \in DOMAIN groups :
        /\ m.url = groups[k].prom.url
        /\ groups[k].prom.url # ""

\* Variant: the sweep compares the id and forgets the URL.
ShouldDeleteById(m, groups) ==
    ~\E k \in DOMAIN groups :
        /\ m.id = groups[k].prom.id
        /\ groups[k].prom.url # ""

\* Variant: shouldDelete is never reset, every manager is swept.
ShouldDeleteAlways(m, groups) == TRUE

\* Reloader.Update, the sweep: a manager stays iff some group has its id
\* and its URL, and that URL is not empty.
ShouldDelete(m, groups) ==
    ~\E k \in DOMAIN groups :
        /\ m.id = groups[k].prom.id
        /\ m.url = groups[k].prom.url
        /\ groups[k].prom.url # ""

\* NewManager followed by Run and the map insert.
NewManagerRun(w, prom) ==
    LET i == w.nInst + 1
    IN  [w EXCEPT !.nInst = i, !.inst[i] = prom, !.epc[i] = "wait",
                  !.loops[i] = 1, !.managers[prom.id] = i]

\* Variant: the second loop does not skip a group with an empty URL.
ConvergeGroupNoSkip(w, g, ioFail) ==
    IF w.managers[g.prom.id] = 0 /\ ~NewClientOk(g.prom.url) THEN w
    ELSE LET w1 == IF w.managers[g.prom.id] = 0 THEN NewManagerRun(w, g.prom) ELSE w
         IN  ManagerUpdate(w1, w1.managers[g.prom.id], g.rules, g.prom.id \notin ioFail)

\* Reloader.Update, one iteration of the second loop; ioFail: the prom ids
\* whose Manager.Update fails in Content() or SaveRule.
ConvergeGroup(w, g, ioFail) ==
    IF g.prom.url = "" THEN w
    ELSE IF w.managers[g.prom.id] = 0 /\ ~NewClientOk(g.prom.url) THEN w
    ELSE LET w1 == IF w.managers[g.prom.id] = 0 THEN NewManagerRun(w, g.prom) ELSE w
         IN  ManagerUpdate(w1, w1.managers[g.prom.id], g.rules, g.prom.id \notin ioFail)

RECURSIVE Converge(_, _, _)
Converge(w, groups, ioFail) ==
    IF groups = <<>> THEN w
    ELSE Converge(ConvergeGroup(w, Head(groups), ioFail), Tail(groups), ioFail)

\* Reloader.Update, the first loop: every manager that matches no group is
\* stopped (its context cancelled) and deleted from the map.
Obsolete(w, groups) ==
    {p \in PromIds : w.managers[p] # 0 /\ ShouldDelete(w.inst[w.managers[p]], groups)}
Sweep(w, groups) ==
    [w EXCEPT !.managers = [p \in PromIds |->
                              IF p \in Obsolete(w, groups) THEN 0 ELSE w.managers[p]],
              !.cancelled = [i \in Insts |->
                               \/ w.cancelled[i]
                               \/ \E p \in Obsolete(w, groups) : w.managers[p] = i]]

\* Reloader.Update after a successful fetch: the sweep, then the second loop.
Reconcile(w, groups, ioFail) == Converge(Sweep(w, groups), groups, ioFail)

\* Managers the reconcile of these groups constructs.
Constructed(groups) ==
    {k \in DOMAIN groups :
        /\ groups[k].prom.url # ""
        /\ NewClientOk(groups[k].prom.url)
        /\ \/ managers[groups[k].prom.id] = 0
           \/ inst[managers[groups[k].prom.id]].url # groups[k].prom.url}

\* A Manager whose tick loop has returned and which the map no longer holds
\* is unreachable: its memory is released.
Unreachable(w, i) == w.epc[i] = "exited" /\ \A p \in PromIds : w.managers[p] # i
Released(w) ==
    [w EXCEPT !.rules = [i \in Insts |-> IF Unreachable(w, i) THEN <<>> ELSE w.rules[i]],
              !.inst = [i \in Insts |-> IF Unreachable(w, i) THEN NoProm ELSE w.inst[i]]]

\* Reloader.Update on what fetchPromRules returned. A failed fetch returns
\* the error before anything is touched. The fetch reads no state of the
\* program, and the two loops run under r.mu and read and write only the map
\* and the managers they stop, create or update, so the call is taken as one
\* step at its return: a step of another goroutine that falls inside the
\* call commutes with the part of the call it follows or precedes.
Update(w, f, ioFail) ==
    IF f.err THEN w ELSE Released(Reconcile(w, f.groups, ioFail))

Install(w) ==
    /\ managers' = w.managers
    /\ nInst' = w.nInst
    /\ inst' = w.inst
    /\ cancelled' = w.cancelled
    /\ epc' = w.epc
    /\ loops' = w.loops
    /\ rules' = w.rules
    /\ stale' = w.stale
    /\ rulesLoaded' = w.rulesLoaded

\* The prom of every fetched group, as the last successful fetch joined them.
GroupProms(groups) == [k \in DOMAIN groups |-> groups[k].prom]

\* One call of Update by Loop. first: it is the call Loop makes before its
\* for loop, whose result is logged and counted nowhere; the later calls
\* count a success or an error. Then "for r.running" is evaluated.
LoopUpdate(first) ==
    \E f \in FetchOutcomes :
    \E ioFail \in SUBSET {f.groups[k].prom.id : k \in DOMAIN f.groups} :
        /\ nInst + Cardinality(Constructed(f.groups)) <= MaxInst
        /\ Install(Update(World, f, ioFail))
        /\ fetched' = IF f.err THEN fetched ELSE GroupProms(f.groups)
        /\ updateRuns' = updateRuns + 1
        /\ lastErr' = f.err
        /\ lastFetch' = f.gateway
        /\ reloadSuccess' = IF ~first /\ ~f.err THEN reloadSuccess + 1 ELSE reloadSuccess
        /\ reloadErrors' = IF ~first /\ f.err THEN reloadErrors + 1 ELSE reloadErrors
        /\ rpc' = IF running THEN "select" ELSE "done"

\* Reloader.Run: running = true, then manager.Run() for every manager in
\* the map, each call starting one more tick loop (go m.evaluator.Run).
RunStartsManagers ==
    /\ running' = TRUE
    /\ epc' = [i \in Insts |->
                 IF \E p \in PromIds : managers[p] = i THEN "wait" ELSE epc[i]]
    /\ loops' = [i \in Insts |->
                   IF \E p \in PromIds : managers[p] = i THEN loops[i] + 1
                   ELSE loops[i]]

\* Reloader.Run as main calls it: once, before Loop.
ReloaderRun ==
    /\ ~panicked
    /\ rpc = "run"
    /\ RunStartsManagers
    /\ rpc' = "loop"
    /\ emitted' = None
    /\ UNCHANGED <<clock, panicked, rootCancelled, managers, fetched,
                   reloadSuccess, reloadErrors, updateRuns, lastErr, lastFetch, spc, stopCalls,
                   nInst, inst, cancelled, rules, rulesLoaded,
                   idx, tickLen, now, held, stale, qres>>
    /\ UNCHANGED notifyVars
    /\ UNCHANGED <<callVars, outerVars>>

\* Loop: the immediate first Update.
LoopInitial ==
    /\ ~panicked
    /\ rpc = "loop"
    /\ LoopUpdate(TRUE)
    /\ emitted' = None
    /\ UNCHANGED <<clock, panicked, running, rootCancelled, spc, stopCalls,
                   idx, tickLen, now, held, qres>>
    /\ UNCHANGED notifyVars
    /\ UNCHANGED <<callVars, outerVars>>

\* Loop: select takes ticker.C (it may, even when ctx.Done() is ready too).
LoopTick ==
    /\ ~panicked
    /\ rpc = "select"
    /\ updateRuns < MaxReloads
    /\ LoopUpdate(FALSE)
    /\ emitted' = None
    /\ UNCHANGED <<clock, panicked, running, rootCancelled, spc, stopCalls,
                   idx, tickLen, now, held, qres>>
    /\ UNCHANGED notifyVars
    /\ UNCHANGED <<callVars, outerVars>>

\* Loop: select takes ctx.Done() and Loop returns.
LoopDone ==
    /\ ~panicked
    /\ rpc = "select"
    /\ rootCancelled
    /\ rpc' = "done"
    /\ emitted' = None
    /\ UNCHANGED <<clock, panicked, running, rootCancelled, managers, fetched,
                   reloadSuccess, reloadErrors, updateRuns, lastErr, lastFetch,
                   spc, stopCalls, instVars, tickVars>>
    /\ UNCHANGED notifyVars
    /\ UNCHANGED <<callVars, outerVars>>

\* Reloader.Stop, called by the signal goroutine (and, being exported, by
\* any caller again once it has returned): running = false under the
\* lock ...
StopRunning ==
    /\ ~panicked
    /\ spc \in {"idle", "done"}
    /\ stopCalls < MaxStops
    /\ stopCalls' = stopCalls + 1
    /\ running' = FALSE
    /\ spc' = "cancel"
    /\ emitted' = None
    /\ UNCHANGED <<clock, panicked, rootCancelled, managers, rpc, fetched,
                   reloadSuccess, reloadErrors, updateRuns, lastErr, lastFetch,
                   instVars, tickVars>>
    /\ UNCHANGED notifyVars
    /\ UNCHANGED <<callVars, outerVars>>

\* Variant: Stop does not cancel the context of the reloader.
StopWithoutCancel ==
    /\ ~panicked
    /\ spc = "cancel"
    /\ spc' = "managers"
    /\ emitted' = None
    /\ UNCHANGED stopCalls
    /\ UNCHANGED <<clock, panicked, running, rootCancelled, managers, rpc, fetched,
                   reloadSuccess, reloadErrors, updateRuns, lastErr, lastFetch,
                   instVars, tickVars>>
    /\ UNCHANGED notifyVars
    /\ UNCHANGED <<callVars, outerVars>>

\* ... r.cancel() ...
StopCancel ==
    /\ ~panicked
    /\ spc = "cancel"
    /\ rootCancelled' = TRUE
    /\ spc' = "managers"
    /\ emitted' = None
    /\ UNCHANGED stopCalls
    /\ UNCHANGED <<clock, panicked, running, managers, rpc, fetched,
                   reloadSuccess, reloadErrors, updateRuns, lastErr, lastFetch,
                   instVars, tickVars>>
    /\ UNCHANGED notifyVars
    /\ UNCHANGED <<callVars, outerVars>>

\* ... and manager.Stop() for every manager in the map, under the read lock.
StopManagers ==
    /\ ~panicked
    /\ spc = "managers"
    /\ cancelled' = [i \in Insts |->
                       cancelled[i] \/ \E p \in PromIds : managers[p] = i]
    /\ spc' = "done"
    /\ emitted' = None
    /\ UNCHANGED stopCalls
    /\ UNCHANGED <<clock, panicked, running, rootCancelled, managers, rpc,
                   fetched, reloadSuccess, reloadErrors, updateRuns,
                   lastErr, lastFetch, nInst, inst, rules, rulesLoaded, loops,
                   tickVars>>
    /\ UNCHANGED notifyVars
    /\ UNCHANGED <<callVars, outerVars>>

\* ---- Manager.sendNotification ----

\* config.NotifyRetries of DefaultConfig.
DefaultNotifyRetries == 3

\* Alert.Value, math.Round(rule.LastValue*100)/100, as json.Marshal sees it:
\* encoding/json refuses a float64 that is NaN or an infinity.
AlertValues == {"0", "5", "+Inf", "NaN"}
MarshalOk(v) == v \notin {"+Inf", "-Inf", "NaN"}

\* What client.Do and the response give in one iteration.
TransportError == [err |-> TRUE, status |-> 0]
Status(code) == [err |-> FALSE, status |-> code]
AttemptOutcomes == {TransportError, Status(200), Status(500)}

\* The call's local state and the two counters it increments.
NotifyState ==
    [pc |-> npc, try |-> nTry, attempts |-> attempts,
     sent |-> notificationsSent, errors |-> notifyErrors]

\* Variant: the loop body of the older sendNotification (it counts a sent
\* notification in every iteration and goes on).
AttemptOlder(c, o) ==
    [c EXCEPT !.attempts = c.attempts + 1, !.sent = c.sent + 1, !.try = c.try + 1]

\* One iteration of the retry loop: client.Do fails, or answers 200 (count
\* a sent notification and return), or answers something else.
Attempt(c, o) ==
    IF o.err
    THEN [c EXCEPT !.attempts = c.attempts + 1, !.errors = c.errors + 1,
                   !.try = c.try + 1]
    ELSE IF o.status = 200
    THEN [c EXCEPT !.attempts = c.attempts + 1, !.sent = c.sent + 1, !.pc = "idle"]
    ELSE [c EXCEPT !.attempts = c.attempts + 1, !.errors = c.errors + 1,
                   !.try = c.try + 1]

programVars == <<clock, panicked, reloaderVars, instVars, tickVars, emitted,
                 callVars, outerVars>>

NotifyIdle ==
    /\ npc = "idle"
    /\ nTry = 0
    /\ marshalled = TRUE
    /\ attempts = 0
    /\ callStart = [sent |-> 0, errors |-> 0]
    /\ notifyCalls = 0
    /\ notificationsSent = 0
    /\ notifyErrors = 0

\* NewManager, the evaluator's notifyFunc: m.sendNotification, whatever
\* config.EnableNotify is (nothing in the program reads the flag).
NotifyFunc(enable) == "sendNotification"

\* The tick loop calls notifyFunc, which is sendNotification: the alert is
\* built and marshalled; a marshal error counts a notify error and returns,
\* otherwise the loop starts at 1.
SendNotification ==
    /\ npc = "idle"
    /\ NotifyFunc(enableNotify) = "sendNotification"
    /\ notifyCalls < MaxNotifyCalls
    /\ notifyCalls' = notifyCalls + 1
    /\ callStart' = [sent |-> notificationsSent, errors |-> notifyErrors]
    /\ attempts' = 0
    /\ \E v \in AlertValues :
          /\ marshalled' = MarshalOk(v)
          /\ npc' = IF MarshalOk(v) THEN "loop" ELSE "idle"
          /\ nTry' = IF MarshalOk(v) THEN 1 ELSE 0
          /\ notifyErrors' = IF MarshalOk(v) THEN notifyErrors ELSE notifyErrors + 1
    /\ UNCHANGED <<programVars, notifyRetries, notificationsSent>>

\* for i := 1; i <= m.config.NotifyRetries; i++ { ... }
NotifyAttempt ==
    /\ npc = "loop"
    /\ nTry <= notifyRetries
    /\ \E o \in AttemptOutcomes :
          LET c == Attempt(NotifyState, o)
          IN  /\ npc' = c.pc
              /\ nTry' = c.try
              /\ attempts' = c.attempts
              /\ notificationsSent' = c.sent
              /\ notifyErrors' = c.errors
    /\ UNCHANGED <<programVars, notifyRetries, marshalled, callStart, notifyCalls>>

\* The loop condition fails: sendNotification returns.
NotifyReturn ==
    /\ npc = "loop"
    /\ nTry > notifyRetries
    /\ npc' = "idle"
    /\ UNCHANGED <<programVars, notifyRetries, nTry, marshalled, attempts,
                   callStart, notifyCalls, notificationsSent, notifyErrors>>

\* ---- rule.Storage ----

\* storage.retention_days and storage.enable_history of DefaultConfig.
DefaultRetentionDays == 30
DefaultEnableHistory == TRUE

NoCall == [op |-> "none"]

\* NewStorage on an empty base directory, no call made yet.
StorageIdle ==
    /\ enableHistory = DefaultEnableHistory
    /\ retentionDays = DefaultRetentionDays
    /\ fs = {}
    /\ fsClock = 0
    /\ ret = NoCall

\* The clock of the storage counts half seconds; the model's day is as
\* short as its second, so that a file outlives the retention within the
\* bound.
TicksPerSecond == 2
TicksPerDay == 2

\* time.Now().Format("20060102_150405"): the second the instant falls in.
Format(t) == t \div TicksPerSecond

\* A path below baseDir: prom_{prom}[/history][/name]; a name is
\* stem[_stamp].ext.
NoName == [stem |-> "", stamp |-> 0, ext |-> ""]
Path(p, h, n) == [prom |-> p, hist |-> h, name |-> n]
PromDir(p) == Path(p, FALSE, NoName)
getPromHistoryDir(p) == Path(p, TRUE, NoName)
getCurrentPath(p) == Path(p, FALSE, [stem |-> "current", stamp |-> 0, ext |-> "yml"])

\* Variant: every source's snapshot goes to the directory of source 1.
getHistoryPathOfFirst(p, ts) ==
    Path(1, TRUE, [stem |-> "rule", stamp |-> ts, ext |-> "yml"])

getHistoryPath(p, ts) ==
    Path(p, TRUE, [stem |-> "rule", stamp |-> ts, ext |-> "yml"])
NoPath == Path(0, FALSE, NoName)

\* dir := filepath[:len(filepath)-len(filepath[len(filepath)-1:])]: the
\* path without its last byte, "....yml" becomes "....ym".
DropLastByte(path) == [path EXCEPT !.name.ext = "ym"]

\* A directory entry: a path, whether it is a directory, its ModTime. (The
\* ModTime of prom_{id} and of history is read nowhere: it is kept at the
\* time of creation.)
Entry(path, dir, t) == [path |-> path, dir |-> dir, mtime |-> t]
Exists(d, path) == \E e \in d : e.path = path

\* The path and the directories above it, up to baseDir.
Above(path) ==
    {path} \cup (IF path.name # NoName THEN {[path EXCEPT !.name = NoName]} ELSE {})
           \cup (IF path.hist THEN {PromDir(path.prom)} ELSE {})

\* os.MkdirAll: every directory of the chain that is missing is created.
MkdirAll(d, path, t) ==
    d \cup {Entry(q, TRUE, t) : q \in {x \in Above(path) : ~Exists(d, x)}}

\* os.WriteFile: the file is created or truncated and written.
WriteFile(d, path, t) == {e \in d : e.path # path} \cup {Entry(path, FALSE, t)}

\* What a directory holds (ReadDir of history, of prom_{id}).
Children(d, dir) ==
    {e \in d : /\ e.path.prom = dir.prom
               /\ e.path.hist = dir.hist
               /\ e.path.name # NoName}
HistoryFiles(d, p) == {e \in Children(d, getPromHistoryDir(p)) : ~e.dir}

AtMostOne(S) == {{}} \cup {{x} : x \in S}

\* Storage.SaveRule(promID, content). The directory it makes sure of is the
\* file's path without its last byte. io: what fails, if anything
\* (MkdirAll or WriteFile).
SaveRule(p) ==
    /\ \E io \in {"ok", "mkdir", "write"} :
          LET filepath == IF enableHistory
                          THEN getHistoryPath(p, Format(fsClock))
                          ELSE getCurrentPath(p)
              dir == DropLastByte(filepath)
              made == MkdirAll(fs, dir, fsClock)
              written == WriteFile(made, filepath, fsClock)
          IN  /\ Cardinality({e \in written : ~e.dir}) <= MaxFiles
              /\ fs' = CASE io = "mkdir" -> fs
                         [] io = "write" -> made
                         [] OTHER -> written
              /\ ret' = [op |-> "save", prom |-> p, err |-> io # "ok",
                         path |-> IF io = "ok" THEN filepath ELSE NoPath]
    /\ UNCHANGED <<enableHistory, retentionDays, fsClock>>
    /\ UNCHANGED <<programVarsOfStorage, notifyVars>>

\* sort.Slice(files, ModTime().After): every order in which no entry comes
\* before one with a later ModTime (the sort is not stable).
RECURSIVE SortedByModTime(_)
SortedByModTime(S) ==
    IF S = {} THEN {<<>>}
    ELSE UNION {{<<e>> \o s : s \in SortedByModTime(S \ {e})} :
                  e \in {x \in S : \A y \in S : y.mtime <= x.mtime}}

\* The loop of ListVersions from index i (0-based) on: stop at the limit,
\* skip a directory, skip a file that cannot be read, else append a version
\* numbered i + 1.
RECURSIVE ListLoop(_, _, _, _)
ListLoop(files, i, limit, unreadable) ==
    IF i >= Len(files) \/ (i >= limit /\ limit > 0) THEN <<>>
    ELSE LET file == files[i + 1]
         IN  IF file.dir \/ file.path \in unreadable
             THEN ListLoop(files, i + 1, limit, unreadable)
             ELSE <<[version |-> i + 1, prom |-> file.path.prom,
                     createdAt |-> file.mtime, filePath |-> file.path]>>
                      \o ListLoop(files, i + 1, limit, unreadable)

Listed(p, limit, err, versions, unreadable) ==
    [op |-> "list", prom |-> p, limit |-> limit, err |-> err,
     versions |-> versions, unreadable |-> unreadable]

\* Storage.ListVersions(promID, limit): history is disabled, or ReadDir
\* fails with something else than "not exist", or the loop runs over the
\* sorted entries; unreadable: the files os.ReadFile fails on.
ListVersions(p, limit) ==
    /\ IF ~enableHistory
       THEN ret' = Listed(p, limit, "disabled", <<>>, {})
       ELSE \/ /\ Exists(fs, getPromHistoryDir(p))
               /\ ret' = Listed(p, limit, "readdir", <<>>, {})
            \/ \E files \in SortedByModTime(Children(fs, getPromHistoryDir(p))) :
               \E unreadable \in AtMostOne({e.path : e \in HistoryFiles(fs, p)}) :
                  ret' = Listed(p, limit, "", ListLoop(files, 0, limit, unreadable),
                                unreadable)
    /\ UNCHANGED <<enableHistory, retentionDays, fs, fsClock>>
    /\ UNCHANGED <<programVarsOfStorage, notifyVars>>

\* Variant: a file modified at the cutoff is removed too.
BeforeOrAt(t, cutoff) == t <= cutoff

\* file.ModTime().Before(cutoffTime)
Before(t, cutoff) == t < cutoff

\* Storage.CleanupOldVersions. baseErr: ReadDir(baseDir) fails; unread: the
\* history directories ReadDir fails on (logged, skipped); kept: the files
\* os.Remove fails on (logged, skipped). Directories are skipped.
CleanupOldVersions ==
    /\ IF ~enableHistory
       THEN /\ fs' = fs
            /\ ret' = [op |-> "cleanup", err |-> FALSE, cutoff |-> 0,
                       unread |-> {}, kept |-> {}, deletedCount |-> 0]
       ELSE LET cutoff == fsClock - retentionDays * TicksPerDay
                dirs == {e.path : e \in {x \in fs : x.path.hist /\ x.path.name = NoName}}
            IN  \E baseErr \in BOOLEAN, unread \in AtMostOne(dirs) :
                  LET old == {e \in fs : /\ e.path.hist
                                         /\ e.path.name # NoName
                                         /\ getPromHistoryDir(e.path.prom) \notin unread
                                         /\ ~e.dir
                                         /\ Before(e.mtime, cutoff)}
                  IN  \E kept \in AtMostOne(old) :
                        /\ fs' = IF baseErr THEN fs ELSE fs \ (old \ kept)
                        /\ ret' = IF baseErr
                                  THEN [op |-> "cleanup", err |-> TRUE, cutoff |-> cutoff,
                                        unread |-> {}, kept |-> {}, deletedCount |-> 0]
                                  ELSE [op |-> "cleanup", err |-> FALSE, cutoff |-> cutoff,
                                        unread |-> unread, kept |-> kept,
                                        deletedCount |-> Cardinality(old \ kept)]
    /\ UNCHANGED <<enableHistory, retentionDays, fsClock>>
    /\ UNCHANGED <<programVarsOfStorage, notifyVars>>

\* Time passes between two calls.
TimePasses ==
    /\ fsClock < MaxFsTime
    /\ fsClock' = fsClock + 1
    /\ UNCHANGED <<enableHistory, retentionDays, fs, ret>>
    /\ UNCHANGED <<programVarsOfStorage, notifyVars>>

\* No Manager.Update call was made by the caller yet.
CallerIdle ==
    /\ lastRules = <<>>
    /\ updateErr = FALSE

\* ---- what the process shows of the map ----

\* Reloader.GetManagerCount
GetManagerCount == Cardinality({p \in PromIds : managers[p] # 0})

\* The /ready handler answers 200 iff GetManagerCount() > 0, else 503.
Ready == GetManagerCount > 0

\* metrics.ActiveManagers: NewMetrics registers the gauge and nothing in the
\* program sets it, so it shows the value a gauge starts with.
ActiveManagers == 0

\* ---- the program: main, as long as no signal arrives ----
\* (Reloader.Stop and Loop's return are not part of this specification.)

Init ==
    /\ clock = 0
    /\ panicked = FALSE
    /\ running = FALSE
    /\ rootCancelled = FALSE
    /\ managers = [p \in PromIds |-> 0]
    /\ rpc = "run"
    /\ fetched = <<>>
    /\ reloadSuccess = 0
    /\ reloadErrors = 0
    /\ updateRuns = 0
    /\ lastErr = FALSE
    /\ lastFetch = "none"
    /\ spc = "idle"
    /\ stopCalls = 0
    /\ nInst = 0
    /\ inst = [i \in Insts |-> NoProm]
    /\ cancelled = [i \in Insts |-> FALSE]
    /\ rules = [i \in Insts |-> <<>>]
    /\ epc = [i \in Insts |-> "none"]
    /\ loops = [i \in Insts |-> 0]
    /\ idx = [i \in Insts |-> 0]
    /\ tickLen = [i \in Insts |-> 0]
    /\ now = [i \in Insts |-> 0]
    /\ held = [i \in Insts |-> NoRule]
    /\ stale = [i \in Insts |-> FALSE]
    /\ qres = [i \in Insts |-> QueryErr]
    /\ rulesLoaded = [p \in PromIds |-> 0]
    /\ emitted = None
    /\ NotifyIdle
    /\ NoHistory
    /\ notifyRetries = DefaultNotifyRetries
    /\ CallerIdle
    /\ series = {}
    /\ enableNotify = FALSE
    /\ StorageIdle

Next ==
    \/ ReloaderRun
    \/ LoopInitial
    \/ LoopTick
    \/ \E i \in Insts : clock < MaxTicks /\ TickStart(i)
    \/ \E i \in Insts : LoopExit(i)
    \/ \E i \in Insts : EvalQuery(i)
    \/ \E i \in Insts : EvalUpdate(i)

Spec == Init /\ [][Next]_vars

\* ---- the program with its shutdown ----
\* main with the signal goroutine: Reloader.Stop runs at any moment, beside
\* Loop and the tick loops, and may be called again. Every tick loop is
\* taken at its select: a pass over the rules reads and writes nothing that
\* Stop, Loop or Update read, so the passes are left to Spec and SpecEval.

NextStop ==
    \/ ReloaderRun
    \/ LoopInitial
    \/ LoopTick
    \/ LoopDone
    \/ StopRunning
    \/ StopCancel
    \/ StopManagers
    \/ \E i \in Insts : LoopExit(i)

SpecStop == Init /\ [][NextStop]_vars

\* ---- the program from start to exit, under the scheduler ----
\* main and the signal goroutine, which calls Reloader.Stop once, with the
\* tick loops taken at their select as in SpecStop. A goroutine that can
\* take a step takes one: Run, the first Update and the steps of Stop are
\* taken once they are possible (every HTTP call returns or times out). A
\* select whose ctx.Done() case is ready again and again takes it in the
\* end: select chooses among the ready cases uniformly at random.

NextLive ==
    \/ ReloaderRun
    \/ LoopInitial
    \/ LoopTick
    \/ LoopDone
    \/ stopCalls = 0 /\ StopRunning
    \/ StopCancel
    \/ StopManagers
    \/ \E i \in Insts : LoopExit(i)

Scheduling ==
    /\ WF_vars(ReloaderRun)
    /\ WF_vars(LoopInitial)
    /\ SF_vars(LoopDone)
    /\ WF_vars(StopCancel)
    /\ WF_vars(StopManagers)
    /\ \A i \in Insts : SF_vars(LoopExit(i))

SpecLive == Init /\ [][NextLive]_vars /\ Scheduling

\* ---- the Reloader under an arbitrary caller ----
\* Run, Update and Stop are exported: from the Reloader as NewReloader
\* returns it, every order of calls of the three, with the tick loops taken
\* at their select.

\* Reloader.Run called by any caller.
CallRun ==
    /\ ~panicked
    /\ \A i \in Insts : loops[i] < MaxLoops
    /\ RunStartsManagers
    /\ emitted' = None
    /\ UNCHANGED <<clock, panicked, rootCancelled, managers, rpc, fetched,
                   reloadSuccess, reloadErrors, updateRuns, lastErr, lastFetch, spc, stopCalls,
                   nInst, inst, cancelled, rules, rulesLoaded,
                   idx, tickLen, now, held, stale, qres>>
    /\ UNCHANGED notifyVars
    /\ UNCHANGED <<callVars, outerVars>>

\* Reloader.Update called by any caller.
CallReconcile ==
    /\ ~panicked
    /\ updateRuns < MaxReloads
    /\ \E f \in FetchOutcomes :
       \E ioFail \in SUBSET {f.groups[k].prom.id : k \in DOMAIN f.groups} :
          /\ nInst + Cardinality(Constructed(f.groups)) <= MaxInst
          /\ Install(Update(World, f, ioFail))
          /\ fetched' = IF f.err THEN fetched ELSE GroupProms(f.groups)
          /\ updateRuns' = updateRuns + 1
          /\ lastErr' = f.err
          /\ lastFetch' = f.gateway
    /\ emitted' = None
    /\ UNCHANGED <<clock, panicked, running, rootCancelled, rpc, reloadSuccess,
                   reloadErrors, spc, stopCalls, idx, tickLen, now, held, qres>>
    /\ UNCHANGED notifyVars
    /\ UNCHANGED <<callVars, outerVars>>

NextCalls ==
    \/ CallRun
    \/ CallReconcile
    \/ StopRunning
    \/ StopCancel
    \/ StopManagers
    \/ \E i \in Insts : LoopExit(i)

SpecCalls == Init /\ [][NextCalls]_vars

\* ---- one Manager under an arbitrary caller ----
\* The state right after NewManager and Run for source 1, and from there
\* every order of Manager.Update calls, Manager.Stop and the tick loop's
\* steps: the rule lists are richer and the clock runs longer than in Spec.

TheManager == 1

\* Manager.Update called by the reconciler.
CallUpdate(i) ==
    /\ ~panicked
    /\ \E rs \in RuleListsOf(inst[i].id), ioOk \in BOOLEAN :
          /\ Install(ManagerUpdate(World, i, rs, ioOk))
          /\ lastRules' = IF ioOk THEN rs ELSE lastRules
          /\ updateErr' = ~ioOk
    /\ emitted' = None
    /\ UNCHANGED <<clock, panicked, reloaderVars, idx, tickLen, now, held, qres>>
    /\ UNCHANGED notifyVars
    /\ UNCHANGED outerVars

InitEval ==
    /\ clock = 0
    /\ panicked = FALSE
    /\ running = TRUE
    /\ rootCancelled = FALSE
    /\ managers = [p \in PromIds |-> IF p = 1 THEN TheManager ELSE 0]
    /\ rpc = "select"
    /\ fetched = <<>>
    /\ reloadSuccess = 0
    /\ reloadErrors = 0
    /\ updateRuns = 0
    /\ lastErr = FALSE
    /\ lastFetch = "none"
    /\ spc = "idle"
    /\ stopCalls = 0
    /\ nInst = 1
    /\ inst = [i \in Insts |-> IF i = TheManager THEN [id |-> 1, url |-> "http://a"]
                               ELSE NoProm]
    /\ cancelled = [i \in Insts |-> FALSE]
    /\ rules = [i \in Insts |-> <<>>]
    /\ epc = [i \in Insts |-> IF i = TheManager THEN "wait" ELSE "none"]
    /\ loops = [i \in Insts |-> IF i = TheManager THEN 1 ELSE 0]
    /\ idx = [i \in Insts |-> 0]
    /\ tickLen = [i \in Insts |-> 0]
    /\ now = [i \in Insts |-> 0]
    /\ held = [i \in Insts |-> NoRule]
    /\ stale = [i \in Insts |-> FALSE]
    /\ qres = [i \in Insts |-> QueryErr]
    /\ rulesLoaded = [p \in PromIds |-> 0]
    /\ emitted = None
    /\ NotifyIdle
    /\ NoHistory
    /\ notifyRetries = DefaultNotifyRetries
    /\ CallerIdle
    /\ series = {}
    /\ enableNotify = FALSE
    /\ StorageIdle

NextEval ==
    \/ CallUpdate(TheManager)
    \/ ManagerStop(TheManager)
    \/ TickStart(TheManager)
    \/ LoopExit(TheManager)
    \/ EvalQuery(TheManager)
    \/ EvalUpdate(TheManager)

SpecEval == InitEval /\ [][NextEval]_vars

\* ---- the notifier of one Manager ----
\* sendNotification calls of a started Manager, one after the other (the
\* tick loop calls it synchronously), for every NotifyRetries up to the
\* bound and every answer of the webhook.

InitNotify ==
    /\ clock = 0
    /\ panicked = FALSE
    /\ running = TRUE
    /\ rootCancelled = FALSE
    /\ managers = [p \in PromIds |-> IF p = 1 THEN TheManager ELSE 0]
    /\ rpc = "select"
    /\ fetched = <<>>
    /\ reloadSuccess = 0
    /\ reloadErrors = 0
    /\ updateRuns = 0
    /\ lastErr = FALSE
    /\ lastFetch = "none"
    /\ spc = "idle"
    /\ stopCalls = 0
    /\ nInst = 1
    /\ inst = [i \in Insts |-> IF i = TheManager THEN [id |-> 1, url |-> "http://a"]
                               ELSE NoProm]
    /\ cancelled = [i \in Insts |-> FALSE]
    /\ rules = [i \in Insts |-> <<>>]
    /\ epc = [i \in Insts |-> IF i = TheManager THEN "wait" ELSE "none"]
    /\ loops = [i \in Insts |-> IF i = TheManager THEN 1 ELSE 0]
    /\ idx = [i \in Insts |-> 0]
    /\ tickLen = [i \in Insts |-> 0]
    /\ now = [i \in Insts |-> 0]
    /\ held = [i \in Insts |-> NoRule]
    /\ stale = [i \in Insts |-> FALSE]
    /\ qres = [i \in Insts |-> QueryErr]
    /\ rulesLoaded = [p \in PromIds |-> 0]
    /\ emitted = None
    /\ NotifyIdle
    /\ NoHistory
    /\ notifyRetries \in 0..MaxNotifyRetries
    /\ CallerIdle
    /\ series = {}
    /\ enableNotify \in BOOLEAN
    /\ StorageIdle

NextNotify ==
    \/ SendNotification
    \/ NotifyAttempt
    \/ NotifyReturn

SpecNotify == InitNotify /\ [][NextNotify]_vars

\* ---- the tick loop and the labels ----
\* One started Manager whose Update has loaded a ruleset, a backend whose
\* series carry labels, and the tick loop alone: every sequence of query
\* results, tick after tick.

SeriesLabels ==
    {[n \in {"instance"} |-> "a"], [n \in {"job"} |-> "j"]}

InitLabels ==
    /\ clock = 0
    /\ panicked = FALSE
    /\ running = TRUE
    /\ rootCancelled = FALSE
    /\ managers = [p \in PromIds |-> IF p = 1 THEN TheManager ELSE 0]
    /\ rpc = "select"
    /\ fetched = <<>>
    /\ reloadSuccess = 0
    /\ reloadErrors = 0
    /\ updateRuns = 0
    /\ lastErr = FALSE
    /\ lastFetch = "none"
    /\ spc = "idle"
    /\ stopCalls = 0
    /\ nInst = 1
    /\ inst = [i \in Insts |-> IF i = TheManager THEN [id |-> 1, url |-> "http://a"]
                               ELSE NoProm]
    /\ cancelled = [i \in Insts |-> FALSE]
    /\ lastRules \in RuleListsOf(1) \ {<<>>}
    /\ updateErr = FALSE
    /\ rules = [i \in Insts |-> IF i = TheManager THEN EvalRules(lastRules) ELSE <<>>]
    /\ epc = [i \in Insts |-> IF i = TheManager THEN "wait" ELSE "none"]
    /\ loops = [i \in Insts |-> IF i = TheManager THEN 1 ELSE 0]
    /\ idx = [i \in Insts |-> 0]
    /\ tickLen = [i \in Insts |-> 0]
    /\ now = [i \in Insts |-> 0]
    /\ held = [i \in Insts |-> NoRule]
    /\ stale = [i \in Insts |-> FALSE]
    /\ qres = [i \in Insts |-> QueryErr]
    /\ rulesLoaded = [p \in PromIds |-> IF p = 1 THEN Len(lastRules) ELSE 0]
    /\ emitted = None
    /\ NotifyIdle
    /\ NoHistory
    /\ notifyRetries = DefaultNotifyRetries
    /\ series = SeriesLabels
    /\ enableNotify = FALSE
    /\ StorageIdle

NextLabels ==
    \/ TickStart(TheManager)
    \/ EvalQuery(TheManager)
    \/ EvalUpdate(TheManager)

SpecLabels == InitLabels /\ [][NextLabels]_vars

\* ---- the rule archive ----
\* main has constructed the Storage on an empty base directory, with either
\* setting of enable_history and every retention up to the bound; from there
\* every order of SaveRule and CleanupOldVersions calls for all sources.

InitStorage ==
    /\ clock = 0
    /\ panicked = FALSE
    /\ running = FALSE
    /\ rootCancelled = FALSE
    /\ managers = [p \in PromIds |-> 0]
    /\ rpc = "run"
    /\ fetched = <<>>
    /\ reloadSuccess = 0
    /\ reloadErrors = 0
    /\ updateRuns = 0
    /\ lastErr = FALSE
    /\ lastFetch = "none"
    /\ spc = "idle"
    /\ stopCalls = 0
    /\ nInst = 0
    /\ inst = [i \in Insts |-> NoProm]
    /\ cancelled = [i \in Insts |-> FALSE]
    /\ rules = [i \in Insts |-> <<>>]
    /\ epc = [i \in Insts |-> "none"]
    /\ loops = [i \in Insts |-> 0]
    /\ idx = [i \in Insts |-> 0]
    /\ tickLen = [i \in Insts |-> 0]
    /\ now = [i \in Insts |-> 0]
    /\ held = [i \in Insts |-> NoRule]
    /\ stale = [i \in Insts |-> FALSE]
    /\ qres = [i \in Insts |-> QueryErr]
    /\ rulesLoaded = [p \in PromIds |-> 0]
    /\ emitted = None
    /\ NotifyIdle
    /\ NoHistory
    /\ notifyRetries = DefaultNotifyRetries
    /\ CallerIdle
    /\ series = {}
    /\ enableNotify = FALSE
    /\ enableHistory \in BOOLEAN
    /\ retentionDays \in 0..MaxRetention
    /\ fs = {}
    /\ fsClock = 0
    /\ ret = NoCall

NextStorage ==
    \/ \E p \in PromIds : SaveRule(p)
    \/ CleanupOldVersions
    \/ TimePasses

SpecStorage == InitStorage /\ [][NextStorage]_vars

\* ---- the history of one source ----
\* The directories of the sources are disjoint, so the history of a source
\* is what the SaveRule calls for that source made of it: every order of
\* SaveRule and ListVersions calls for one source, with every limit.

ListedProm == 1

NextVersions ==
    \/ SaveRule(ListedProm)
    \/ \E limit \in -1..MaxLimit : ListVersions(ListedProm, limit)
    \/ TimePasses

SpecVersions == InitStorage /\ [][NextVersions]_vars

\* ======================= the claims =======================

KeySet == {p \in PromIds : managers[p] # 0}
UpdateReturned == updateRuns' = updateRuns + 1
AsGroups(proms) == [k \in DOMAIN proms |-> [prom |-> proms[k], rules |-> <<>>]]
SameRuntime(a, b) ==
    /\ a.state = b.state
    /\ a.activeAt = b.activeAt
    /\ a.firedAt = b.firedAt
    /\ a.lastValue = b.lastValue

\* C1 (as claimed): Manager.Update keeps state, active_at, fired_at and
\* last_value of every rule whose id is in the ruleset before and after it.
\* A step that moves neither the clock nor the tick loop nor the context is
\* a Manager.Update call.
C1_UpdatePreservesState ==
    [][(UNCHANGED <<clock, cancelled, epc, idx>>) =>
          \A i \in Insts : \A a \in DOMAIN rules[i], b \in DOMAIN rules'[i] :
              rules[i][a].id = rules'[i][b].id => SameRuntime(rules[i][a], rules'[i][b])]_vars

\* C2 (as claimed): while the tick loop of an evaluator is inside one pass
\* over its rules, no other goroutine replaces that evaluator's ruleset.
C2_UpdateExcludesTick ==
    [][\A i \in Insts :
          (epc[i] \in {"query", "update"} /\ epc'[i] = epc[i] /\ idx'[i] = idx[i])
              => rules'[i] = rules[i]]_vars

\* C3 (as claimed): after an Update that returned no error, the keys of the
\* map are exactly the ids of the fetched groups whose URL is not empty.
C3_KeysAreGroupsWithURL ==
    (updateRuns > 0 /\ ~lastErr) =>
        KeySet = {fetched[k].id : k \in {j \in DOMAIN fetched : fetched[j].url # ""}}

\* C3 (amended): after an Update that returned no error, the keys of the map
\* are exactly the ids of the fetched groups whose URL is not empty and for
\* which a client can be constructed, whatever the map was before.
C3_KeysAreConstructibleGroups ==
    (updateRuns > 0 /\ ~lastErr) =>
        KeySet = {fetched[k].id :
                    k \in {j \in DOMAIN fetched :
                             fetched[j].url # "" /\ NewClientOk(fetched[j].url)}}

\* C3 witness: a second reconcile that found a manager in the map and whose
\* groups hold one it cannot construct and one it keeps or constructs.
C3_Witness ==
    /\ updateRuns = 2
    /\ ~lastErr
    /\ cancelled[1]
    /\ KeySet # {}
    /\ \E k \in DOMAIN fetched : fetched[k].url = BadURL

\* A source of the map whose incoming group has another URL.
URLChanged(p, proms) ==
    /\ managers[p] # 0
    /\ \E k \in DOMAIN proms : proms[k].id = p /\ proms[k].url # inst[managers[p]].url
NewURL(p, proms) == proms[CHOOSE k \in DOMAIN proms : proms[k].id = p].url

\* The sweep of a reconcile has stopped and removed the old manager of p,
\* and no manager was constructed up to there.
OldTornDownFirst(p, proms) ==
    LET swept == Sweep(World, AsGroups(proms))
    IN  /\ swept.managers[p] = 0
        /\ swept.cancelled[managers[p]]
        /\ swept.nInst = nInst
        /\ cancelled'[managers[p]]

\* After the reconcile the entry of p is a manager constructed by it, bound
\* to the new URL, started and not stopped.
NewManagerInstalled(p, proms) ==
    /\ managers'[p] > nInst
    /\ inst'[managers'[p]] = [id |-> p, url |-> NewURL(p, proms)]
    /\ epc'[managers'[p]] = "wait"
    /\ ~cancelled'[managers'[p]]

\* C4 (as claimed): a reconcile that finds a live id with another URL stops
\* and removes the old manager before it constructs the new one, and leaves
\* the id mapped to a new manager bound to the new URL.
C4_URLChangeRecreates ==
    [][(UpdateReturned /\ ~lastErr') =>
          \A p \in PromIds : URLChanged(p, fetched') =>
              OldTornDownFirst(p, fetched') /\ NewManagerInstalled(p, fetched')]_vars

\* C4 (amended): ... and leaves the id mapped to a new manager bound to the
\* new URL when that URL is not empty and a client can be constructed for
\* it; otherwise the id has no entry after the reconcile.
C4_URLChangeRecreatesIfConstructible ==
    [][(UpdateReturned /\ ~lastErr') =>
          \A p \in PromIds : URLChanged(p, fetched') =>
              /\ OldTornDownFirst(p, fetched')
              /\ IF NewURL(p, fetched') # "" /\ NewClientOk(NewURL(p, fetched'))
                 THEN NewManagerInstalled(p, fetched')
                 ELSE managers'[p] = 0]_vars

\* C4 witness: source p went from manager 1 to manager 2 with another URL.
C4_Witness ==
    \E p \in PromIds :
        /\ managers[p] = 2
        /\ inst[1].id = p
        /\ cancelled[1]
        /\ ~cancelled[2]
        /\ inst[2].url # inst[1].url

\* The tick loop of instance i can still run a query that reaches the
\* backend, or is about to make a notifyFunc call.
NotifyPending(i) ==
    /\ epc[i] = "update"
    /\ updateRuleState(Merged(held[i], qres[i]), qres[i].has, qres[i].value,
                       now[i]).notify # "none"
Live(i) ==
    /\ epc[i] \in {"wait", "query", "update"}
    /\ ~CtxDone(i) \/ NotifyPending(i)

\* C5 (as claimed): no two live evaluators have the same prom id; the tick
\* loop of an evaluator a reconcile stopped makes no notification while the
\* evaluator that replaced it is running.
C5_OneLiveEvaluatorPerProm ==
    \A i \in Insts, j \in Insts :
        (i # j /\ Live(i) /\ Live(j)) => inst[i].id # inst[j].id

\* The keys a successful reconcile of these proms leaves in the map.
ExpectedKeys(proms) ==
    {proms[k].id : k \in {j \in DOMAIN proms :
                             proms[j].url # "" /\ NewClientOk(proms[j].url)}}

\* C6: an Update whose fetch fails (transport, decode or code # 0) returns an
\* error and changes neither the map nor any manager's rules, context or
\* tick loop; an Update whose fetch succeeds after a failed one returns no
\* error and leaves the map with the keys of its groups.
C6_FetchFailureChangesNothing ==
    [][UpdateReturned =>
          /\ lastFetch' # "ok" =>
                /\ lastErr'
                /\ UNCHANGED <<managers, fetched, nInst, inst, cancelled, rules,
                               epc, stale, rulesLoaded>>
          /\ (lastErr /\ lastFetch' = "ok") =>
                /\ ~lastErr'
                /\ KeySet' = ExpectedKeys(fetched')]_vars

\* C6 witness: an Update failed on a map that holds a running manager with
\* rules.
C6_Witness ==
    /\ lastErr
    /\ lastFetch \in {"transport", "decode", "api"}
    /\ \E p \in PromIds :
          /\ managers[p] # 0
          /\ rules[managers[p]] # <<>>
          /\ epc[managers[p]] # "none"

\* C7 (as claimed): the two reload counters add up to the number of Update
\* calls Loop has completed, the first one included.
C7_EveryUpdateCounted == reloadSuccess + reloadErrors = updateRuns

\* C8: every Inactive rule of every evaluator has zero ActiveAt and FiredAt.
C8_InactiveHasZeroTimes ==
    \A i \in Insts : \A k \in DOMAIN rules[i] :
        rules[i][k].state = StateInactive =>
            rules[i][k].activeAt = ZeroTime /\ rules[i][k].firedAt = ZeroTime

\* C8 witness: a rule that fired was resolved and is Inactive again.
C8_Witness ==
    /\ emitted.kind = "resolved"
    /\ \E k \in DOMAIN rules[emitted.inst] :
          /\ rules[emitted.inst][k].id = emitted.rule.id
          /\ rules[emitted.inst][k].state = StateInactive
          /\ emitted.rule.firedAt # ZeroTime

\* The step ends a pass of evaluate over the rules of instance i.
TickEnds(i) == epc[i] \in {"query", "update"} /\ epc'[i] = "wait"

\* The step is updateRuleState on an element of the current slice.
RuleEvaluated(i) == epc[i] = "update" /\ epc'[i] # "update" /\ ~stale[i]

PendingTimes(r) == r.activeAt # ZeroTime /\ r.firedAt = ZeroTime

\* C9 (as claimed): at the end of a tick taken at now, every Pending rule has
\* non-zero ActiveAt, zero FiredAt and now - ActiveAt < For, For = 0 included.
C9_PendingWithinFor ==
    [][\A i \in Insts : TickEnds(i) =>
          \A k \in DOMAIN rules'[i] :
              rules'[i][k].state = StatePending =>
                  /\ PendingTimes(rules'[i][k])
                  /\ now[i] - rules'[i][k].activeAt < rules'[i][k].for]_vars

\* What the code keeps of C9: every Pending rule has non-zero ActiveAt and zero FiredAt;
\* a rule that a tick taken at now evaluates and leaves Pending either
\* became Pending in that tick (ActiveAt = now) or has now - ActiveAt < For.
C9_PendingEnteredOrWithinFor ==
    [][\A i \in Insts :
          /\ \A k \in DOMAIN rules'[i] :
                rules'[i][k].state = StatePending => PendingTimes(rules'[i][k])
          /\ RuleEvaluated(i) =>
                LET r == rules'[i][idx[i]]
                IN  r.state = StatePending =>
                        \/ r.activeAt = now[i]
                        \/ now[i] - r.activeAt < r.for]_vars

\* C9 witness: at the end of a tick a rule with For = 0 is Pending, and so is
\* a rule with For = 2s that became Pending in an earlier tick.
C9_Witness ==
    /\ epc[TheManager] = "wait"
    /\ \E k \in DOMAIN rules[TheManager] :
          /\ rules[TheManager][k].state = StatePending
          /\ rules[TheManager][k].for = 0
    /\ \E k \in DOMAIN rules[TheManager] :
          /\ rules[TheManager][k].state = StatePending
          /\ rules[TheManager][k].for > 0
          /\ rules[TheManager][k].activeAt < clock

\* C10: every Firing rule has non-zero ActiveAt and FiredAt, and
\* FiredAt - ActiveAt >= For.
C10_FiringAfterFor ==
    \A i \in Insts : \A k \in DOMAIN rules[i] :
        rules[i][k].state = StateFiring =>
            /\ rules[i][k].activeAt # ZeroTime
            /\ rules[i][k].firedAt # ZeroTime
            /\ rules[i][k].firedAt - rules[i][k].activeAt >= rules[i][k].for

\* C10 witness: a rule with For = 2s is Firing.
C10_Witness ==
    \E k \in DOMAIN rules[TheManager] :
        /\ rules[TheManager][k].state = StateFiring
        /\ rules[TheManager][k].for = 2
        /\ emitted.kind = "firing"

\* The step is updateRuleState of instance i, on the element its tick holds.
Evaluates(i) == epc[i] = "update" /\ epc'[i] # "update"

\* The element the tick holds, with LastValue set as updateRuleState starts.
Observed(i) == [Merged(held[i], qres[i]) EXCEPT !.lastValue = qres[i].value]

\* The step leaves the element the tick holds as r; the write reaches the
\* evaluator's ruleset unless the slice was replaced during the iteration.
LeavesRule(i, r) == ~stale[i] => rules'[i][idx[i]] = r

Notification(kind, i, r) == [kind |-> kind, inst |-> i, rule |-> r]

\* C11: a Pending rule whose query returned a value at a tick taken at now
\* becomes Firing with FiredAt = now and one "firing" notification carrying
\* that FiredAt when now - ActiveAt >= For; otherwise it stays Pending as it
\* was and nothing is notified.
C11_PendingFiresOnce ==
    [][\A i \in Insts :
          (Evaluates(i) /\ held[i].state = StatePending /\ qres[i].has) =>
              IF now[i] - held[i].activeAt >= held[i].for
              THEN LET f == [Observed(i) EXCEPT !.state = StateFiring,
                                                !.firedAt = now[i]]
                   IN  emitted' = Notification("firing", i, f) /\ LeavesRule(i, f)
              ELSE emitted' = None /\ LeavesRule(i, Observed(i))]_vars

\* C11 witness: a rule with For = 2s has just fired, two intervals after it
\* became Pending, and the notification carries the FiredAt of this tick.
C11_Witness ==
    /\ emitted.kind = "firing"
    /\ emitted.rule.for = 2
    /\ emitted.rule.firedAt = clock
    /\ emitted.rule.activeAt = clock - 2
    /\ \E k \in DOMAIN rules[emitted.inst] : rules[emitted.inst][k] = emitted.rule

\* C12: a Firing rule whose query returned a value stays Firing with ActiveAt
\* and FiredAt as they were, and one "firing" notification is made for it in
\* that tick.
C12_FiringRepeats ==
    [][\A i \in Insts :
          (Evaluates(i) /\ held[i].state = StateFiring /\ qres[i].has) =>
              /\ emitted' = Notification("firing", i, Observed(i))
              /\ LeavesRule(i, Observed(i))
              /\ Observed(i).activeAt = held[i].activeAt
              /\ Observed(i).firedAt = held[i].firedAt]_vars

\* C12 witness: a "firing" notification for a rule that fired in an earlier
\* tick.
C12_Witness ==
    /\ emitted.kind = "firing"
    /\ emitted.rule.firedAt # ZeroTime
    /\ emitted.rule.firedAt < clock
    /\ \E k \in DOMAIN rules[emitted.inst] : rules[emitted.inst][k] = emitted.rule

\* C13: a Firing rule whose query returned an empty result makes one
\* "resolved" notification carrying the ActiveAt and FiredAt it had, and is
\* Inactive with both cleared after the step.
C13_ResolvedCarriesEpisode ==
    [][\A i \in Insts :
          (Evaluates(i) /\ held[i].state = StateFiring /\ ~qres[i].has) =>
              /\ emitted' = Notification("resolved", i, Observed(i))
              /\ emitted'.rule.activeAt = held[i].activeAt
              /\ emitted'.rule.firedAt = held[i].firedAt
              /\ LeavesRule(i, [Observed(i) EXCEPT !.state = StateInactive,
                                                   !.activeAt = ZeroTime,
                                                   !.firedAt = ZeroTime])]_vars

\* C13 witness: a "resolved" notification with the times of the episode,
\* for a rule that is Inactive with zero times in the ruleset.
C13_Witness ==
    /\ emitted.kind = "resolved"
    /\ emitted.rule.activeAt # ZeroTime
    /\ emitted.rule.firedAt >= emitted.rule.activeAt + emitted.rule.for
    /\ \E k \in DOMAIN rules[emitted.inst] :
          /\ rules[emitted.inst][k].id = emitted.rule.id
          /\ rules[emitted.inst][k].state = StateInactive
          /\ rules[emitted.inst][k].activeAt = ZeroTime
          /\ rules[emitted.inst][k].firedAt = ZeroTime

\* C14 (as claimed): a rule with an empty or unparseable "for" has For = 0
\* and, Inactive when a tick starts, is Firing when a tick in which its query
\* returned a value ends.
C14_ZeroForFiresAtOnce ==
    [][\A i \in Insts :
          (/\ Evaluates(i)
           /\ ~stale[i]
           /\ held[i].state = StateInactive
           /\ held[i].for = 0
           /\ qres[i].has) =>
              /\ rules'[i][idx[i]].state = StateFiring
              /\ emitted'.kind = "firing"]_vars

\* The step is an iteration of evaluate that ends at "continue": the query
\* of the rule at idx returned an error.
Skips(i) == epc[i] = "query" /\ idx'[i] # idx[i] /\ ~panicked'

\* C15: when the query of a rule returns an error, no rule of the evaluator
\* changes, nothing is notified, and the tick goes on with the next rule of
\* the pass (it ends if there is none).
C15_QueryErrorSkipsRule ==
    [][\A i \in Insts : Skips(i) =>
          /\ rules' = rules
          /\ emitted' = None
          /\ IF idx[i] < tickLen[i]
             THEN epc'[i] = "query" /\ idx'[i] = idx[i] + 1 /\ now'[i] = now[i]
             ELSE epc'[i] = "wait"]_vars

\* C15 witness: the tick is at its second rule and the first, Pending with
\* For = 0 since an earlier tick, is as it was: a value would have fired it
\* and an empty result would have made it Inactive.
C15_Witness ==
    \E i \in Insts :
        /\ epc[i] \in {"query", "update"}
        /\ idx[i] = 2
        /\ ~stale[i]
        /\ Len(rules[i]) = 2
        /\ rules[i][1].state = StatePending
        /\ rules[i][1].for = 0
        /\ rules[i][1].activeAt < now[i]

SentByCall == notificationsSent - callStart.sent
ErrorsByCall == notifyErrors - callStart.errors

\* C16 (as claimed): one sendNotification call makes at most NotifyRetries
\* attempts and stops at the first 200; it counts at most one sent
\* notification, and its errors and sent together are the attempts it made;
\* when every attempt failed, nothing is counted as sent and the call returns.
C16_CountersMatchAttempts ==
    /\ attempts <= notifyRetries
    /\ SentByCall <= 1
    /\ SentByCall = 1 => npc = "idle"
    /\ ErrorsByCall + SentByCall = attempts
    /\ npc = "loop" => nTry \in 1..(notifyRetries + 1)
    /\ (npc = "idle" /\ notifyCalls > 0 /\ SentByCall = 0) =>
           attempts = notifyRetries /\ ErrorsByCall = notifyRetries

\* C16 (amended): ... its errors and sent together are the attempts it made,
\* unless the alert cannot be marshalled: then the call makes no attempt,
\* counts one notify error and returns.
C16_CountersMatchAttemptsOrMarshal ==
    /\ attempts <= notifyRetries
    /\ SentByCall <= 1
    /\ SentByCall = 1 => npc = "idle"
    /\ marshalled => ErrorsByCall + SentByCall = attempts
    /\ ~marshalled => attempts = 0 /\ SentByCall = 0 /\ ErrorsByCall = 1 /\ npc = "idle"
    /\ npc = "loop" => nTry \in 1..(notifyRetries + 1)
    /\ (npc = "idle" /\ notifyCalls > 0 /\ marshalled /\ SentByCall = 0) =>
           attempts = notifyRetries /\ ErrorsByCall = notifyRetries

\* C16 witness: with NotifyRetries = 2, a second call has returned after two
\* failed attempts; the first call had been answered 200.
C16_Witness ==
    /\ notifyRetries = 2
    /\ notifyCalls = 2
    /\ npc = "idle"
    /\ marshalled
    /\ attempts = 2
    /\ ErrorsByCall = 2
    /\ SentByCall = 0
    /\ notificationsSent = 1

\* Source p has no group with a URL among these proms: it is absent, or its
\* group kept the empty URL.
NoURL(p, proms) == \A k \in DOMAIN proms : proms[k].id = p => proms[k].url = ""

\* The manager of p matches no group of these proms by id and non-empty URL.
Unmatched(p, proms) ==
    /\ managers[p] # 0
    /\ ~\E k \in DOMAIN proms :
          /\ proms[k].id = p
          /\ proms[k].url = inst[managers[p]].url
          /\ proms[k].url # ""

\* C17: no manager in the map has an empty URL; a reconcile leaves no
\* manager for a source that is absent or has an empty URL, and it stops and
\* removes the manager of every source that is absent, has another URL or
\* has an empty URL.
C17_NoEvaluatorWithoutURL ==
    [][/\ \A p \in PromIds : managers'[p] # 0 => inst'[managers'[p]].url # ""
       /\ (UpdateReturned /\ ~lastErr') =>
             \A p \in PromIds :
                 /\ NoURL(p, fetched') => managers'[p] = 0
                 /\ Unmatched(p, fetched') =>
                       /\ cancelled'[managers[p]]
                       /\ managers'[p] # managers[p]]_vars

\* C17 witness: a reconcile whose group for the source of manager 1 has an
\* empty URL has stopped manager 1 and left the source without a manager.
C17_Witness ==
    /\ updateRuns = 2
    /\ ~lastErr
    /\ cancelled[1]
    /\ inst[1].id # 0
    /\ managers[inst[1].id] = 0
    /\ \E k \in DOMAIN fetched : fetched[k].id = inst[1].id /\ fetched[k].url = ""

\* C18: a reconcile whose fetch succeeded with an empty rule list stops
\* every manager and empties the map: GetManagerCount() is 0, the
\* active_managers gauge is 0 and /ready answers unavailable.
C18_EmptyRulesTearDownAll ==
    [][(UpdateReturned /\ ~lastErr' /\ fetched' = <<>>) =>
          /\ \A p \in PromIds :
                /\ managers'[p] = 0
                /\ managers[p] # 0 => cancelled'[managers[p]]
          /\ GetManagerCount' = 0
          /\ ActiveManagers = 0
          /\ ~Ready']_vars

\* C18 witness: the second reconcile fetched no rule and stopped manager 1,
\* which the first had started; the probe is not ready.
C18_Witness ==
    /\ updateRuns = 2
    /\ lastFetch = "ok"
    /\ ~lastErr
    /\ fetched = <<>>
    /\ nInst = 1
    /\ cancelled[1]
    /\ GetManagerCount = 0
    /\ ~Ready

\* Every Manager constructed so far has a cancelled context.
AllCancelled == \A i \in 1..nInst : CtxDone(i)

\* C19: Reloader.Stop sets running to false, cancels the root context and
\* stops every manager in the map; from the cancel on, every manager that
\* exists or that a reconcile constructs has a cancelled context; a second
\* call of Stop leaves the root context, the map and every manager's
\* context as they were, and running false.
C19_StopCancelsAll ==
    [][/\ (spc # "cancel" /\ spc' = "cancel") => ~running'
       /\ (spc = "cancel" /\ spc' = "managers") => rootCancelled'
       /\ (spc = "managers" /\ spc' = "done") =>
             \A p \in PromIds : managers[p] # 0 => cancelled'[managers[p]]
       /\ (spc' \in {"managers", "done"} \/ stopCalls' >= 2) =>
             rootCancelled' /\ AllCancelled'
       /\ (stopCalls' >= 2 /\ spc' # spc) =>
             /\ rootCancelled' = rootCancelled
             /\ managers' = managers
             /\ \A i \in Insts : CtxDone(i)' = CtxDone(i)
             /\ ~running => ~running']_vars

\* C19 witness: after two calls of Stop a reconcile has constructed
\* manager 2; nothing called its Stop, and its context is cancelled.
C19_Witness ==
    /\ stopCalls = 2
    /\ spc = "done"
    /\ rpc = "done"
    /\ nInst = 2
    /\ epc[2] # "none"
    /\ \E p \in PromIds : managers[p] = 2
    /\ ~cancelled[2]
    /\ CtxDone(2)

\* C20: once the context of an evaluator is cancelled, the query of every
\* rule its tick loop comes to fails, so that rule is skipped and nothing is
\* notified for it; a notification is made only for a rule whose query had
\* returned before the cancellation or without one.
C20_NoNotificationAfterCancel ==
    [][/\ \A i \in Insts :
             (epc[i] = "query" /\ CtxDone(i)) =>
                 /\ emitted' = None
                 /\ epc'[i] # "update"
       /\ emitted' # None => epc[emitted'.inst] = "update"]_vars

\* C20 witness: the context is cancelled and a tick is at its second rule,
\* which is Firing; the first, Pending with For = 0 since an earlier tick,
\* was skipped.
C20_Witness ==
    /\ cancelled[TheManager]
    /\ epc[TheManager] = "query"
    /\ idx[TheManager] = 2
    /\ Len(rules[TheManager]) = 2
    /\ rules[TheManager][1].state = StatePending
    /\ rules[TheManager][1].for = 0
    /\ rules[TheManager][1].activeAt < now[TheManager]
    /\ rules[TheManager][2].state = StateFiring

\* A step of Manager.Update: it moves neither the clock, nor the tick loop,
\* nor the context, and the process goes on.
UpdateStep == UNCHANGED <<clock, cancelled, epc, idx, panicked>>
Ids(seq) == [k \in DOMAIN seq |-> seq[k].id]

\* C21: a Manager.Update that fails in Content() or in SaveRule returns the
\* error and leaves the evaluator's rules, with their state, and the
\* rules_loaded gauge as they were; the tick loop goes on with them.
C21_FailedUpdateKeepsRuleset ==
    [][(~updateErr /\ updateErr') =>
          /\ UNCHANGED <<rules, rulesLoaded, lastRules>>
          /\ UNCHANGED <<tickVars, cancelled, inst, managers>>
          /\ emitted' = None]_vars

\* C21 witness: the last Update failed, and the evaluator holds a ruleset of
\* two rules, one of them Firing, that the gauge counts.
C21_Witness ==
    /\ updateErr
    /\ Len(rules[TheManager]) = 2
    /\ rulesLoaded[1] = 2
    /\ Ids(rules[TheManager]) = Ids(lastRules)
    /\ \E k \in DOMAIN rules[TheManager] : rules[TheManager][k].state = StateFiring

\* C22: after a Manager.Update that returned nil the evaluator's ruleset has
\* exactly the ids of the new rules, in their order, so a rule that is not
\* among them is gone whatever its state was; the update itself makes no
\* notifyFunc call.
C22_UpdateDropsAbsentRules ==
    [][(UpdateStep /\ ~updateErr') =>
          /\ Ids(rules'[TheManager]) = Ids(lastRules')
          /\ rulesLoaded'[1] = Len(lastRules')
          /\ emitted' = None]_vars

\* C22 witness: an Update that returned nil came while the tick loop held a
\* Firing rule; the new ruleset has the other rule of the source only.
C22_Witness ==
    /\ ~updateErr
    /\ epc[TheManager] = "update"
    /\ stale[TheManager]
    /\ held[TheManager].state = StateFiring
    /\ Len(rules[TheManager]) = 1
    /\ \A k \in DOMAIN rules[TheManager] : rules[TheManager][k].id # held[TheManager].id

\* ListVersions returned a list.
ListReturned == ret.op = "list" /\ ret.err = ""
Readable == {e \in HistoryFiles(fs, ret.prom) : e.path \notin ret.unreadable}
Min(a, b) == IF a <= b THEN a ELSE b

\* C23 (as claimed): the versions ListVersions returns are in descending
\* order of modification time and numbered 1..N in that order, whatever
\* SaveRule calls filled the history directory.
C23_OrdinalsAreOneToN ==
    (ListReturned /\ ret.unreadable = {}) =>
        /\ \A k \in DOMAIN ret.versions : ret.versions[k].version = k
        /\ \A k \in DOMAIN ret.versions : \A j \in DOMAIN ret.versions :
              k < j => ret.versions[k].createdAt >= ret.versions[j].createdAt

\* C24 (as claimed): with limit > 0 ListVersions returns the
\* min(limit, readable files) most recent versions, a subdirectory taking
\* nothing of the limit; with limit <= 0 it returns all of them.
C24_LimitCountsVersions ==
    ListReturned =>
        /\ Len(ret.versions) = IF ret.limit > 0
                               THEN Min(ret.limit, Cardinality(Readable))
                               ELSE Cardinality(Readable)
        /\ \A k \in DOMAIN ret.versions : \A e \in Readable :
              \/ \E j \in DOMAIN ret.versions : ret.versions[j].filePath = e.path
              \/ e.mtime <= ret.versions[k].createdAt

\* A step of SaveRule, of CleanupOldVersions.
SaveStep == ret'.op = "save" /\ fsClock' = fsClock
CleanupStep == ret'.op = "cleanup" /\ fsClock' = fsClock
IsHistoryFile(e) == e.path.hist /\ e.path.name # NoName /\ ~e.dir

\* C25: SaveRule for source P creates or changes entries under prom_P only;
\* with history it writes prom_P/history/rule_{timestamp}.yml, without it
\* prom_P/current.yml and nothing named history; the path it returns is the
\* file it wrote.
C25_SaveStaysUnderProm ==
    [][SaveStep =>
          /\ \A e \in fs \cup fs' :
                e.path.prom # ret'.prom => (e \in fs /\ e \in fs')
          /\ ~ret'.err =>
                /\ ret'.path.prom = ret'.prom
                /\ ret'.path.hist = enableHistory
                /\ ret'.path.name =
                      IF enableHistory
                      THEN [stem |-> "rule", stamp |-> Format(fsClock), ext |-> "yml"]
                      ELSE [stem |-> "current", stamp |-> 0, ext |-> "yml"]
                /\ Entry(ret'.path, FALSE, fsClock) \in fs'
          /\ ~enableHistory => \A e \in fs' : ~e.path.hist]_vars

\* C25 witness: SaveRule has written a snapshot of source 2 beside the
\* history of source 1.
C25_Witness ==
    /\ ret.op = "save"
    /\ ~ret.err
    /\ ret.prom = 2
    /\ enableHistory
    /\ HistoryFiles(fs, 1) # {}
    /\ Entry(ret.path, FALSE, fsClock) \in fs

C27_DisabledNotifierIsSilent ==
    ~enableNotify => (attempts = 0 /\ notificationsSent = 0 /\ notifyErrors = 0)

\* C28 (as claimed): at a tick whose query succeeds LastValue becomes the
\* value returned when there is one and stays as it was when the result is
\* empty, so a "resolved" notification carries the last value seen while
\* the condition was present.
C28_LastValueKeptOnEmpty ==
    [][\A i \in Insts :
          Evaluates(i) =>
              /\ ~stale[i] => rules'[i][idx[i]].lastValue =
                                 IF qres[i].has THEN qres[i].value
                                 ELSE held[i].lastValue
              /\ (emitted' # None /\ emitted'.kind = "resolved") =>
                    emitted'.rule.lastValue = held[i].lastValue]_vars

\* C29 (as claimed): at a tick whose query has a value the rule's labels,
\* and those of a notification made in that tick, are the labels the
\* gateway configured overlaid with the labels this tick's query returned;
\* a label only an earlier tick's query returned is not among them.
C29_LabelsFromConfigured ==
    [][\A i \in Insts :
          (Evaluates(i) /\ qres[i].has) =>
              LET want == MergeLabels(ConfiguredLabels(held[i].id), qres[i].labels)
              IN  /\ ~stale[i] => rules'[i][idx[i]].labels = want
                  /\ emitted' # None => emitted'.rule.labels = want]_vars

\* C30: for a rule whose query has a value tick after tick: Inactive, it
\* becomes Pending with ActiveAt = now and nothing is notified; Pending, it
\* stays so, silently, at every tick with now - ActiveAt < For, and at the
\* first later tick with now - ActiveAt >= For it becomes Firing with
\* FiredAt = now and its first "firing" notification is made (For = 2
\* intervals: Pending at ticks 1 and 2, Firing at tick 3).
C30_PresentRunFiresAfterFor ==
    [][\A i \in Insts :
          (Evaluates(i) /\ qres[i].has /\ ~stale[i]) =>
              LET r == rules'[i][idx[i]]
              IN  CASE held[i].state = StateInactive ->
                         /\ r.state = StatePending
                         /\ r.activeAt = now[i]
                         /\ r.firedAt = ZeroTime
                         /\ emitted' = None
                    [] held[i].state = StatePending
                         /\ now[i] - held[i].activeAt < held[i].for ->
                         /\ r.state = StatePending
                         /\ r.activeAt = held[i].activeAt
                         /\ r.firedAt = ZeroTime
                         /\ held[i].firedAt = ZeroTime
                         /\ emitted' = None
                    [] held[i].state = StatePending
                         /\ now[i] - held[i].activeAt >= held[i].for ->
                         /\ r.state = StateFiring
                         /\ r.activeAt = held[i].activeAt
                         /\ r.firedAt = now[i]
                         /\ held[i].firedAt = ZeroTime
                         /\ now[i] > held[i].activeAt
                         /\ emitted' = Notification("firing", i, r)
                    [] OTHER -> TRUE]_vars

\* C30 witness: the rule with For = 2 intervals, Pending since tick 1, has
\* fired at tick 3.
C30_Witness ==
    /\ clock = 3
    /\ emitted.kind = "firing"
    /\ emitted.rule.for = 2
    /\ emitted.rule.activeAt = 1
    /\ emitted.rule.firedAt = 3
    /\ emitted.rule.lastValue = PresentValue

\* Stop was called; the loop of the reloader and every tick loop returned.
StopSignalled == stopCalls > 0
LoopReturned == rpc = "done"
TickLoopsReturned == \A i \in Insts : epc[i] \in {"none", "exited"}

Matched(p, proms) ==
    /\ managers[p] # 0
    /\ \E k \in DOMAIN proms :
          /\ proms[k].id = p
          /\ proms[k].url = inst[managers[p]].url
          /\ proms[k].url # ""

\* C32: a reconcile leaves every manager that matches an incoming group by
\* id and non-empty URL in the map, the same instance with the same context
\* and the same tick loop where it was, whatever the reconcile does for the
\* other sources.
C32_ReconcileKeepsMatched ==
    [][(UpdateReturned /\ ~lastErr') =>
          \A p \in PromIds : Matched(p, fetched') =>
              /\ managers'[p] = managers[p]
              /\ inst'[managers[p]] = inst[managers[p]]
              /\ cancelled'[managers[p]] = cancelled[managers[p]]
              /\ epc'[managers[p]] = epc[managers[p]]]_vars

\* C32 witness: the second reconcile kept the manager of source 1, which
\* is inside a pass over its rules, and stopped and removed the manager of
\* source 2; the first reconcile had constructed both.
C32_Witness ==
    /\ updateRuns = 2
    /\ ~lastErr
    /\ managers[1] = 1
    /\ ~cancelled[1]
    /\ epc[1] \in {"query", "update"}
    /\ \E k \in DOMAIN fetched : fetched[k].id = 1 /\ fetched[k].url = inst[1].url
    /\ managers[2] = 0
    /\ inst[2].id = 2
    /\ cancelled[2]

\* C33 (as claimed): once Update has returned, and after Stop, the
\* alertengine_active_managers gauge shows the number of managers in the
\* map, GetManagerCount().
C33_GaugeCountsManagers ==
    (updateRuns > 0 /\ rpc # "loop") => ActiveManagers = GetManagerCount

\* C34: the notifications an evaluator makes for one rule id are
\* bracketed: a "resolved" one comes only when a "firing" one was made for
\* that id since the last "resolved" one (or since the start), and a pass
\* over the rules makes at most one notification for a rule id, whatever
\* the ticks, the query results and the Manager.Update calls are.
C34_NotificationsBracketed ==
    [][\A i \in Insts :
          (Evaluates(i) /\ emitted' # None) =>
              /\ emitted'.inst = i
              /\ emitted'.kind = "resolved" => emitted'.rule.id \in open[i]
              /\ emitted'.rule.id \notin noted[i]]_vars

\* C34 witness: in one pass the evaluator has notified one rule as firing
\* and then the other, which had fired before, as resolved.
C34_Witness ==
    /\ emitted # None
    /\ emitted.kind = "resolved"
    /\ emitted.rule.id \notin open[emitted.inst]
    /\ open[emitted.inst] # {}
    /\ noted[emitted.inst] = open[emitted.inst] \cup {emitted.rule.id}

\* C35 (as claimed): whatever the order of the Run, Update and Stop calls
\* on the Reloader, no Manager has more than one tick loop running, so no
\* rule is evaluated more than once in an evaluation interval.
C35_OneTickLoopPerManager == \A i \in Insts : loops[i] <= 1

====
